---- MODULE Spec2Model ----
(***************************************************************************)
(* Model of the jars library (src/src/lib.rs): the JarOption filter, the   *)
(* JarOptionBuilder and the jar() extraction loop.                         *)
(*                                                                         *)
(* A Rust String is a sequence of one-character strings.  A HashSet is a   *)
(* set, a HashMap a function, a Vec a sequence.  The zip crate calls       *)
(* (by_index, enclosed_name, is_dir, bytes) are modelled as the crate      *)
(* (zip 0.6) defines them; the outcome of each I/O call is an input.       *)
(***************************************************************************)
EXTENDS Integers, Sequences, FiniteSets, TLC

VARIABLES
    builder,    \* JarOptionBuilder under construction (BuilderSpec)
    ops,        \* history of the builder calls made so far (BuilderSpec)
    option,     \* the JarOption: build()'s value, jar()'s argument
    pc,         \* position: building/built, or idle/reading/success/failed
    archive,    \* the entries of the opened ZipArchive, central-directory order
    i,          \* loop index of jar(), 0-based
    files,      \* the local HashMap of jar()
    result,     \* what jar() returned: None, Ok(Jar) or Err
    read        \* indices of the entries whose bytes() were consumed

vars == <<builder, ops, option, pc, archive, i, files, result, read>>

-----------------------------------------------------------------------------
(* Bounds *)

MaxEntries == 3     \* longest archive
MaxOps == 2         \* longest chain of builder calls before build()
MaxVec == 2         \* longest Vec handed to targets()/exts()

-----------------------------------------------------------------------------
(* Strings of the test universe *)

P_Object == <<"j","a","v","a","/","l","a","n","g","/","O","b","j","e","c","t",".","c","l","a","s","s">>
P_List == <<"j","a","v","a","/","u","t","i","l","/","L","i","s","t",".","c","l","a","s","s">>
P_Manifest == <<"M","E","T","A","-","I","N","F","/","M","A","N","I","F","E","S","T",".","M","F">>
P_LangDir == <<"j","a","v","a","/","l","a","n","g","/">>
P_Evil == <<".",".","/","e","v","i","l",".","c","l","a","s","s">>
P_Readme == <<"R","E","A","D","M","E">>
P_DotDir == <<"a",".","d","/","M","F">>
T_JavaLang == <<"j","a","v","a","/","l","a","n","g">>
T_MetaInf == <<"M","E","T","A","-","I","N","F">>
X_ass == <<"a","s","s">>
X_MF == <<"M","F">>
X_class == <<"c","l","a","s","s">>
X_dotMF == <<".","M","F">>
P_TwoDots == <<"A",".","c","l","a","s","s",".","b","a","k">>

TargetInputs == {T_JavaLang, T_MetaInf}
ExtInputs == {X_ass, X_MF}

NUL == "NUL"        \* the character U+0000

Bytes1 == <<202, 254>>
Bytes2 == <<77>>

None == [some |-> FALSE]
Some(v) == [some |-> TRUE, val |-> v]

-----------------------------------------------------------------------------
(* str::starts_with, str::ends_with, str::rsplit_once *)

starts_with(s, p) ==
    /\ Len(p) <= Len(s)
    /\ SubSeq(s, 1, Len(p)) = p

ends_with(s, p) ==
    /\ Len(p) <= Len(s)
    /\ SubSeq(s, Len(s) - Len(p) + 1, Len(s)) = p

RECURSIVE rfind(_, _, _)
\* position of the last c in s[1..k], 0 when there is none
rfind(s, c, k) ==
    IF k = 0 THEN 0
    ELSE IF s[k] = c THEN k
    ELSE rfind(s, c, k - 1)

rsplit_once(s, c) ==
    LET k == rfind(s, c, Len(s))
    IN  IF k = 0 THEN None
        ELSE Some(<<SubSeq(s, 1, k - 1), SubSeq(s, k + 1, Len(s))>>)

-----------------------------------------------------------------------------
(* JarOption *)

JarOption(targets, exts) ==
    [extract_targets |-> targets, extension_targets |-> exts]

target_match(opt, qualified_target_path) ==
    IF opt.extract_targets = {}
    THEN TRUE
    ELSE \E target \in opt.extract_targets :
            starts_with(qualified_target_path, target)

\* a variant of ext_match without the is_empty test
ext_match_no_empty_case(opt, qualified_target_path) ==
    LET extension == rsplit_once(qualified_target_path, ".")
    IN  IF extension.some
        THEN \E ext \in opt.extension_targets :
                ends_with(extension.val[2], ext)
        ELSE FALSE

\* a variant of ext_match that compares the extension for equality
ext_match_exact(opt, qualified_target_path) ==
    IF opt.extension_targets = {}
    THEN TRUE
    ELSE LET extension == rsplit_once(qualified_target_path, ".")
         IN  IF extension.some
             THEN \E ext \in opt.extension_targets : extension.val[2] = ext
             ELSE FALSE

ext_match(opt, qualified_target_path) ==
    IF opt.extension_targets = {}
    THEN TRUE
    ELSE LET extension == rsplit_once(qualified_target_path, ".")
         IN  IF extension.some
             THEN \E ext \in opt.extension_targets :
                     ends_with(extension.val[2], ext)
             ELSE FALSE

\* JarOptionBuilder::default()
default == JarOption({}, {})

-----------------------------------------------------------------------------
(* The zip crate's view of an entry *)

RECURSIVE components(_)
\* Path::components of a relative path: the "/"-separated pieces, empty
\* pieces dropped
components(s) ==
    LET cut == {k \in 1..Len(s) : s[k] = "/"}
    IN  IF cut = {} THEN (IF s = <<>> THEN <<>> ELSE <<s>>)
        ELSE LET k == CHOOSE x \in cut : \A y \in cut : x <= y
                 rest == components(SubSeq(s, k + 1, Len(s)))
             IN  IF k = 1 THEN rest ELSE <<SubSeq(s, 1, k - 1)>> \o rest

RECURSIVE walk(_, _)
\* the depth loop of enclosed_name: -1 when a ".." climbs above the root
walk(comps, depth) ==
    IF comps = <<>> THEN depth
    ELSE IF Head(comps) = <<".", ".">>
         THEN (IF depth = 0 THEN -1 ELSE walk(Tail(comps), depth - 1))
    ELSE IF Head(comps) = <<".">> THEN walk(Tail(comps), depth)
    ELSE walk(Tail(comps), depth + 1)

\* ZipFile::enclosed_name followed by to_string_lossy().to_string(): the
\* name itself when it is safe, None otherwise
enclosed_name(name) ==
    IF \E k \in 1..Len(name) : name[k] = NUL THEN None
    ELSE IF name # <<>> /\ name[1] = "/" THEN None
    ELSE IF walk(components(name), 0) < 0 THEN None
    ELSE Some(name)

\* ZipFile::is_dir: the name ends in a slash or a backslash
is_dir(file) ==
    /\ file.name # <<>>
    /\ file.name[Len(file.name)] \in {"/", "\\"}

-----------------------------------------------------------------------------
(* JarOptionBuilder *)

\* JarOptionBuilder::builder()
new_builder == [extract_targets |-> {}, extension_targets |-> {}]

\* a variant of keep_meta_info that files META-INF under the extensions
keep_meta_info_as_ext(self) ==
    [self EXCEPT !.extension_targets = @ \cup {T_MetaInf}]

keep_meta_info(self) ==
    [self EXCEPT !.extract_targets = @ \cup {T_MetaInf}]

target(self, t) ==
    [self EXCEPT !.extract_targets = @ \cup {t}]

RECURSIVE targets(_, _)
\* the for loop over the Vec, one insert per element
targets(self, ts) ==
    IF ts = <<>> THEN self
    ELSE targets([self EXCEPT !.extract_targets = @ \cup {Head(ts)}], Tail(ts))

ext(self, e) ==
    [self EXCEPT !.extension_targets = @ \cup {e}]

RECURSIVE exts(_, _)
exts(self, es) ==
    IF es = <<>> THEN self
    ELSE exts([self EXCEPT !.extension_targets = @ \cup {Head(es)}], Tail(es))

build(self) ==
    JarOption(self.extract_targets, self.extension_targets)

Vecs(S) == UNION {[1..n -> S] : n \in 0..MaxVec}

Call(op, arg) == [op |-> op, arg |-> arg]

\* the builder after one more call
apply(self, call) ==
    CASE call.op = "keep_meta_info" -> keep_meta_info(self)
      [] call.op = "target" -> target(self, call.arg)
      [] call.op = "targets" -> targets(self, call.arg)
      [] call.op = "ext" -> ext(self, call.arg)
      [] call.op = "exts" -> exts(self, call.arg)

BuilderIdle == <<archive, i, files, result, read>>

KeepMetaInfo ==
    /\ pc = "building" /\ Len(ops) < MaxOps
    /\ builder' = keep_meta_info(builder)
    /\ ops' = Append(ops, Call("keep_meta_info", <<>>))
    /\ UNCHANGED <<option, pc, BuilderIdle>>

Target ==
    /\ pc = "building" /\ Len(ops) < MaxOps
    /\ \E t \in TargetInputs :
        /\ builder' = target(builder, t)
        /\ ops' = Append(ops, Call("target", t))
    /\ UNCHANGED <<option, pc, BuilderIdle>>

Targets ==
    /\ pc = "building" /\ Len(ops) < MaxOps
    /\ \E ts \in Vecs(TargetInputs) :
        /\ builder' = targets(builder, ts)
        /\ ops' = Append(ops, Call("targets", ts))
    /\ UNCHANGED <<option, pc, BuilderIdle>>

Ext ==
    /\ pc = "building" /\ Len(ops) < MaxOps
    /\ \E e \in ExtInputs :
        /\ builder' = ext(builder, e)
        /\ ops' = Append(ops, Call("ext", e))
    /\ UNCHANGED <<option, pc, BuilderIdle>>

Exts ==
    /\ pc = "building" /\ Len(ops) < MaxOps
    /\ \E es \in Vecs(ExtInputs) :
        /\ builder' = exts(builder, es)
        /\ ops' = Append(ops, Call("exts", es))
    /\ UNCHANGED <<option, pc, BuilderIdle>>

\* build(self) consumes the builder
Build ==
    /\ pc = "building"
    /\ option' = build(builder)
    /\ builder' = None
    /\ pc' = "built"
    /\ UNCHANGED <<ops, BuilderIdle>>

BuilderInit ==
    /\ builder = new_builder
    /\ ops = <<>>
    /\ option = None
    /\ pc = "building"
    /\ archive = <<>>
    /\ i = 0
    /\ files = <<>>
    /\ result = None
    /\ read = {}

BuilderNext == KeepMetaInfo \/ Target \/ Targets \/ Ext \/ Exts \/ Build

BuilderSpec == BuilderInit /\ [][BuilderNext]_vars

-----------------------------------------------------------------------------
(* jar() *)

Entry(name, content) == [name |-> name, content |-> content]

EntryPool ==
    { Entry(P_Object, Bytes1), Entry(P_Object, Bytes2),
      Entry(P_List, Bytes1), Entry(P_Manifest, Bytes2),
      Entry(P_LangDir, <<>>), Entry(P_Evil, Bytes1),
      Entry(P_Readme, Bytes2) }

Archives == UNION {[1..n -> EntryPool] : n \in 0..MaxEntries}

\* the JarOptions the builder can produce from the inputs
Options ==
    {JarOption(t, e) : t \in SUBSET TargetInputs, e \in SUBSET ExtInputs}

Ok(f) == [tag |-> "Ok", files |-> f]
Err(cause) == [tag |-> "Err", cause |-> cause]

\* a variant of insert that keeps the value of a key already present
insert_keep_first(map, key, value) ==
    [k \in DOMAIN map \cup {key} |->
        IF k \in DOMAIN map THEN map[k] ELSE value]

\* HashMap::insert
insert(map, key, value) ==
    [k \in DOMAIN map \cup {key} |-> IF k = key THEN value ELSE map[k]]

\* a variant of the filter that wants both dimensions to match
accepted_and(opt, file_path) ==
    target_match(opt, file_path) /\ ext_match(opt, file_path)

\* a variant of the filter in which an empty dimension matches nothing
accepted_nonempty(opt, file_path) ==
    \/ opt.extract_targets # {} /\ target_match(opt, file_path)
    \/ opt.extension_targets # {} /\ ext_match(opt, file_path)

\* the test of line 177, negated: the entry passes the filter
accepted(opt, file_path) ==
    ~(~target_match(opt, file_path) /\ ~ext_match(opt, file_path))

\* a variant of the loop body without the is_dir test
skip_keeps_dirs(opt, file) ==
    LET file_path == enclosed_name(file.name)
    IN  IF ~file_path.some THEN TRUE
        ELSE ~accepted(opt, file_path.val)

\* the three `continue`s of the loop body
skip(opt, file) ==
    LET file_path == enclosed_name(file.name)
    IN  IF ~file_path.some THEN TRUE
        ELSE IF is_dir(file) THEN TRUE
        ELSE ~accepted(opt, file_path.val)

\* File::open(path) fails
OpenFail ==
    /\ pc = "idle"
    /\ pc' = "failed"
    /\ result' = Err("open")
    /\ UNCHANGED <<builder, ops, option, archive, i, files, read>>

\* ZipArchive::new fails on the opened file
ParseFail ==
    /\ pc = "idle"
    /\ pc' = "failed"
    /\ result' = Err("parse")
    /\ UNCHANGED <<builder, ops, option, archive, i, files, read>>

\* File::open and ZipArchive::new succeed
Open ==
    /\ pc = "idle"
    /\ \E a \in Archives : archive' = a
    /\ pc' = "reading"
    /\ i' = 0
    /\ files' = <<>>
    /\ UNCHANGED <<builder, ops, option, result, read>>

\* a variant of the loop body that returns what it has when a read fails
Iterate_partial ==
    /\ pc = "reading"
    /\ i < Len(archive)
    /\ \E by_index_ok, bytes_ok \in BOOLEAN :
        LET file == archive[i + 1]
        IN  IF ~by_index_ok
            THEN /\ pc' = "failed"
                 /\ result' = Err("by_index")
                 /\ UNCHANGED <<i, files, read>>
            ELSE IF skip(option, file)
            THEN /\ i' = i + 1
                 /\ UNCHANGED <<pc, result, files, read>>
            ELSE /\ read' = read \cup {i}
                 /\ IF bytes_ok
                    THEN /\ files' = insert(files, enclosed_name(file.name).val,
                                            file.content)
                         /\ i' = i + 1
                         /\ UNCHANGED <<pc, result>>
                    ELSE /\ pc' = "success"
                         /\ result' = Ok(files)
                         /\ UNCHANGED <<i, files>>
    /\ UNCHANGED <<builder, ops, option, archive>>

\* a variant of the loop body that reads the bytes before it filters
Iterate_read_first ==
    /\ pc = "reading"
    /\ i < Len(archive)
    /\ \E by_index_ok, bytes_ok \in BOOLEAN :
        LET file == archive[i + 1]
        IN  IF ~by_index_ok
            THEN /\ pc' = "failed"
                 /\ result' = Err("by_index")
                 /\ UNCHANGED <<i, files, read>>
            ELSE /\ read' = read \cup {i}
                 /\ IF ~bytes_ok
                    THEN /\ pc' = "failed"
                         /\ result' = Err("read")
                         /\ UNCHANGED <<i, files>>
                    ELSE /\ i' = i + 1
                         /\ files' = IF skip(option, file) THEN files
                                     ELSE insert(files,
                                                 enclosed_name(file.name).val,
                                                 file.content)
                         /\ UNCHANGED <<pc, result>>
    /\ UNCHANGED <<builder, ops, option, archive>>

\* one iteration of the for loop; by_index_ok and bytes_ok are the outcomes
\* of jar_zip.by_index(i) and of file.bytes().collect()
Iterate ==
    /\ pc = "reading"
    /\ i < Len(archive)
    /\ \E by_index_ok, bytes_ok \in BOOLEAN :
        LET file == archive[i + 1]
        IN  IF ~by_index_ok
            THEN /\ pc' = "failed"
                 /\ result' = Err("by_index")
                 /\ UNCHANGED <<i, files, read>>
            ELSE IF skip(option, file)
            THEN /\ i' = i + 1
                 /\ UNCHANGED <<pc, result, files, read>>
            ELSE /\ read' = read \cup {i}
                 /\ IF bytes_ok
                    THEN /\ files' = insert(files, enclosed_name(file.name).val,
                                            file.content)
                         /\ i' = i + 1
                         /\ UNCHANGED <<pc, result>>
                    ELSE /\ pc' = "failed"
                         /\ result' = Err("read")
                         /\ UNCHANGED <<i, files>>
    /\ UNCHANGED <<builder, ops, option, archive>>

\* the loop is over: Ok(Jar { files })
Return ==
    /\ pc = "reading"
    /\ i = Len(archive)
    /\ pc' = "success"
    /\ result' = Ok(files)
    /\ UNCHANGED <<builder, ops, option, archive, i, files, read>>

Init ==
    /\ builder = None
    /\ ops = <<>>
    /\ option \in Options
    /\ pc = "idle"
    /\ archive = <<>>
    /\ i = 0
    /\ files = <<>>
    /\ result = None
    /\ read = {}

Next == OpenFail \/ ParseFail \/ Open \/ Iterate \/ Return

Spec == Init /\ [][Next]_vars

-----------------------------------------------------------------------------
(* ext_match on its own: one call on a path and an extension set *)

SamplePaths ==
    {P_Object, P_List, P_Manifest, P_LangDir, P_Evil, P_Readme, P_DotDir,
     P_TwoDots}

SampleExts == {X_ass, X_MF, X_class, X_dotMF, <<>>}

MatchInit ==
    /\ builder = None
    /\ ops = <<>>
    /\ option \in {JarOption({}, e) : e \in SUBSET SampleExts}
    /\ pc = "matching"
    /\ archive \in {<<Entry(p, <<>>)>> : p \in SamplePaths}
    /\ i = 0
    /\ files = <<>>
    /\ result = None
    /\ read = {}

ExtMatch ==
    /\ pc = "matching"
    /\ result' = Some(ext_match(option, archive[1].name))
    /\ pc' = "matched"
    /\ UNCHANGED <<builder, ops, option, archive, i, files, read>>

MatchNext == ExtMatch

MatchSpec == MatchInit /\ [][MatchNext]_vars

-----------------------------------------------------------------------------
(* Properties *)

PathOf(e) == enclosed_name(e.name).val

\* indices of the path-safe, non-directory entries
SafeFiles(a) ==
    {k \in 1..Len(a) : enclosed_name(a[k].name).some /\ ~is_dir(a[k])}

\* indices of the entries the acceptance rule of the specification keeps
Kept(a, opt) ==
    {k \in SafeFiles(a) :
        target_match(opt, PathOf(a[k])) \/ ext_match(opt, PathOf(a[k]))}

HasPrefix(opt, p) == \E t \in opt.extract_targets : starts_with(p, t)

LastOf(S) == CHOOSE k \in S : \A j \in S : j <= k

\* the mapping of the indices ks of a: each path to the content of its last
\* entry
Extracted(a, ks) ==
    [p \in {PathOf(a[k]) : k \in ks} |->
        a[LastOf({k \in ks : PathOf(a[k]) = p})].content]

C2_AcceptAll ==
    (pc = "success" /\ option = default) =>
        DOMAIN result.files = {PathOf(archive[k]) : k \in SafeFiles(archive)}

C2_Witness ==
    /\ pc = "success"
    /\ option = default
    /\ DOMAIN result.files # {}
    /\ \E k \in 1..Len(archive) : is_dir(archive[k])
    /\ \E k \in 1..Len(archive) : ~enclosed_name(archive[k].name).some

\* C3: with a non-empty prefix set and no extensions, the keys of a
\* successful result are exactly the paths of the path-safe, non-directory
\* entries that start with a registered prefix.
C3_PrefixOnlyFilters ==
    (/\ pc = "success"
     /\ option.extract_targets # {}
     /\ option.extension_targets = {}) =>
        DOMAIN result.files =
            {PathOf(archive[k]) :
                k \in {j \in SafeFiles(archive) :
                        HasPrefix(option, PathOf(archive[j]))}}

C5_NoDirectoryKeys ==
    \A k \in 1..Len(archive) :
        (is_dir(archive[k]) /\ enclosed_name(archive[k].name).some) =>
            /\ PathOf(archive[k]) \notin DOMAIN files
            /\ pc = "success" => PathOf(archive[k]) \notin DOMAIN result.files

C5_Witness ==
    /\ pc = "success"
    /\ DOMAIN result.files # {}
    /\ \E k \in 1..Len(archive) :
        /\ is_dir(archive[k])
        /\ enclosed_name(archive[k].name).some
        /\ option.extract_targets # {}
        /\ target_match(option, PathOf(archive[k]))
        /\ ext_match(option, PathOf(archive[k]))

\* C6: after a successful jar(), each key holds the content of the last
\* accepted entry of that path in central-directory order.
C6_LastWriteWins ==
    pc = "success" =>
        /\ DOMAIN result.files =
              {PathOf(archive[k]) : k \in Kept(archive, option)}
        /\ \A p \in DOMAIN result.files :
              result.files[p] =
                  archive[LastOf({k \in Kept(archive, option) :
                                    PathOf(archive[k]) = p})].content

C6_Witness ==
    /\ pc = "success"
    /\ \E k1, k2 \in Kept(archive, option) :
        /\ k1 < k2
        /\ PathOf(archive[k1]) = PathOf(archive[k2])
        /\ archive[k1].content # archive[k2].content
        /\ result.files[PathOf(archive[k2])] = archive[k2].content

\* C7: jar() ends either with the complete result, after every entry was
\* processed, or with an error that carries no mapping; before it ends it
\* has returned nothing.
C7_AllOrNothing ==
    /\ pc \in {"idle", "reading", "success", "failed"}
    /\ pc \in {"idle", "reading"} => result = None
    /\ pc = "failed" =>
          /\ result \in {Err(c) : c \in {"open", "parse", "by_index", "read"}}
          /\ result.cause \in {"open", "parse"} => files = <<>>
    /\ pc = "success" =>
          /\ i = Len(archive)
          /\ result = Ok(Extracted(archive, Kept(archive, option)))

C7_Witness ==
    /\ pc = "failed"
    /\ result = Err("read")
    /\ i > 0
    /\ files # <<>>

\* the extension rule as the specification words it
ExtensionMatches(extensions, path) ==
    LET dots == {k \in 1..Len(path) : path[k] = "."}
    IN  IF extensions = {} THEN TRUE
        ELSE IF dots = {} THEN FALSE
        ELSE LET last == LastOf(dots)
                 after == [j \in 1..(Len(path) - last) |-> path[last + j]]
             IN  \E e \in extensions :
                    \E n \in 0..Len(after) : after = SubSeq(after, 1, n) \o e

\* C8: ext_match is true for an empty extension set; otherwise false for a
\* path without '.', and otherwise true iff the part of the whole path after
\* its last '.' ends with a registered extension.
C8_ExtMatch ==
    pc = "matched" =>
        result.val =
            ExtensionMatches(option.extension_targets, archive[1].name)

C8_Witness ==
    /\ pc = "matched"
    /\ option.extension_targets = {X_ass}
    /\ archive[1].name = P_Object
    /\ result.val = TRUE

\* the strings the calls of a history add to each set
AddedTargets(h) ==
    UNION {IF h[k].op = "keep_meta_info" THEN {T_MetaInf}
           ELSE IF h[k].op = "target" THEN {h[k].arg}
           ELSE IF h[k].op = "targets"
                THEN {h[k].arg[j] : j \in 1..Len(h[k].arg)}
           ELSE {} : k \in 1..Len(h)}

AddedExts(h) ==
    UNION {IF h[k].op = "ext" THEN {h[k].arg}
           ELSE IF h[k].op = "exts"
                THEN {h[k].arg[j] : j \in 1..Len(h[k].arg)}
           ELSE {} : k \in 1..Len(h)}

RECURSIVE replay(_, _)
replay(self, h) ==
    IF h = <<>> THEN self ELSE replay(apply(self, Head(h)), Tail(h))

Reorderings(h) ==
    {[k \in 1..Len(h) |-> h[f[k]]] :
        f \in {g \in [1..Len(h) -> 1..Len(h)] :
                \A x, y \in 1..Len(h) : g[x] = g[y] => x = y}}

\* C9: the built config's prefix set is the set of prefixes added
\* (keep_meta_info adding "META-INF"), its extension set the set of
\* extensions added; any reordering of the calls, and the calls made twice,
\* build an equal config.
C9_BuilderSets ==
    pc = "built" =>
        /\ option.extract_targets = AddedTargets(ops)
        /\ option.extension_targets = AddedExts(ops)
        /\ \A h \in Reorderings(ops) : build(replay(new_builder, h)) = option
        /\ build(replay(new_builder, ops \o ops)) = option

C9_Witness ==
    /\ pc = "built"
    /\ \E k \in 1..Len(ops) : ops[k].op = "keep_meta_info"
    /\ \E k \in 1..Len(ops) : ops[k].op \in {"ext", "exts"}
    /\ option.extract_targets = {T_MetaInf}
    /\ option.extension_targets # {}

\* an entry the loop is meant to pass over: unsafe path, directory, or
\* rejected by the acceptance rule
Skippable(opt, e) ==
    \/ ~enclosed_name(e.name).some
    \/ is_dir(e)
    \/ ~(target_match(opt, PathOf(e)) \/ ext_match(opt, PathOf(e)))

\* C10 as claimed: jar() fails only on open, on parsing, or at an accepted
\* entry; a skippable entry never makes it fail.
C10_SkippedNeverFails ==
    pc = "failed" =>
        \/ result.cause \in {"open", "parse"}
        \/ ~Skippable(option, archive[i + 1])

\* C10 as amended: a skipped entry never has its bytes read and the skip
\* itself never fails; jar() fails only on open, on parsing, on by_index of
\* any entry (skippable or not), or on reading the bytes of an accepted
\* entry.
C10_SkippedNeverRead ==
    /\ \A k \in read : ~Skippable(option, archive[k + 1])
    /\ pc = "failed" =>
          \/ result.cause \in {"open", "parse", "by_index"}
          \/ /\ result.cause = "read"
             /\ i \in read
             /\ ~Skippable(option, archive[i + 1])

C10_Witness ==
    /\ pc = "failed"
    /\ result.cause = "by_index"
    /\ Skippable(option, archive[i + 1])
    /\ read # {}
    /\ \E k \in 1..i : Skippable(option, archive[k])

====
